---- MODULE Spec2Model ----
(***************************************************************************)
(* Nauclerus Logbook API (app/main.py): the FastAPI route handlers, the    *)
(* request-scoped storage session (get_db) and the storage rows they read  *)
(* and write.  The data-access layer (sqlUtils.crud) and the tables        *)
(* (sqlUtils.models) are modelled from the specification's description of  *)
(* them; the handlers are modelled from main.py.                           *)
(***************************************************************************)
EXTENDS Integers, Sequences, FiniteSets, TLC

VARIABLES
    db,          \* storage: [pilots, aircraft, flights, logbooks], each a set of rows
    req,         \* per client: the request in flight (or the last one) and its response
    sessions,    \* the storage sessions that are open
    nextSession  \* the number of sessions SessionLocal() has created, plus one

vars == <<db, req, sessions, nextSession>>

(* ------------------------------ bounds -------------------------------- *)
MaxRequests == 3      \* requests served in one behaviour
MaxId == 2            \* ids a client may name are 1..MaxId
MaxTailLen == 1       \* length of a tail number

\* the clients that may have a request in flight at the same time
Clients == {"c1", "c2"}

(* ------------------------------ values -------------------------------- *)
\* Python's None for an Optional[int] parameter (ids are positive).
None == -1

IdArgs == (1..MaxId) \cup {None}
Names == {"Alice", "Bob"}

\* A tail number is a string, modelled as a sequence of characters, so that
\* letter case is visible.
Chars == {"n", "N", "1"}
Tails == UNION {[1..k -> Chars] : k \in 1..MaxTailLen}

\* str.upper(), character by character.
upper_char(ch) == IF ch = "n" THEN "N" ELSE ch
upper(s) == [i \in DOMAIN s |-> upper_char(s[i])]

\* An uploaded file, by what pd.read_csv and the column access see of it.
Files == [wellformed : BOOLEAN, columns : SUBSET {"Date", "Aircraft"}]

Max(S) == CHOOSE x \in S : \A y \in S : y <= x
\* The auto-assigned primary key of the next row of a table.
NextRowId(rows) == IF rows = {} THEN 1 ELSE Max({r.id : r \in rows}) + 1
\* Query.first(): the set holding the first matching row, {} for None.
First(rows) ==
    IF rows = {} THEN {}
    ELSE {CHOOSE r \in rows : \A q \in rows : r.id <= q.id}

EmptyDb == [pilots |-> {}, aircraft |-> {}, flights |-> {}, logbooks |-> {}]

(* ------------------------- data-access layer -------------------------- *)
get_pilot_by_id(d, pilot_id) == First({p \in d.pilots : p.id = pilot_id})

get_pilot_by_name(d, pilot_name) == First({p \in d.pilots : p.name = pilot_name})

get_aircraft_by_id(d, ac_id) == First({a \in d.aircraft : a.id = ac_id})

get_aircraft_by_tail(d, tail_numb) ==
    First({a \in d.aircraft : a.tail_numb = tail_numb})

get_logbook_by_pilot(d, pilot_id) == {l \in d.logbooks : l.pilot_id = pilot_id}

new_pilot(d, pilot) == [id |-> NextRowId(d.pilots), name |-> pilot.name]
create_pilot(d, pilot) ==
    [d EXCEPT !.pilots = @ \cup {new_pilot(d, pilot)}]

new_aircraft(d, aircraft, pilot_id) ==
    [id |-> NextRowId(d.aircraft), tail_numb |-> aircraft.tail_numb,
     pilot_id |-> pilot_id]
create_aircraft(d, aircraft, pilot_id) ==
    [d EXCEPT !.aircraft = @ \cup {new_aircraft(d, aircraft, pilot_id)}]

new_flight(d, pilot_id, aircraft_id) ==
    [id |-> NextRowId(d.flights), pilot_id |-> pilot_id,
     aircraft_id |-> aircraft_id]
create_flight(d, pilot_id, aircraft_id) ==
    [d EXCEPT !.flights = @ \cup {new_flight(d, pilot_id, aircraft_id)}]

new_logbook(d, logbook) ==
    [id |-> NextRowId(d.logbooks), pilot_id |-> logbook.pilot_id]
create_logbook(d, logbook) ==
    [d EXCEPT !.logbooks = @ \cup {new_logbook(d, logbook)}]

delete_logbook_map(d, pilot_id, logbook_id) ==
    [d EXCEPT !.logbooks =
        {l \in @ : ~(l.id = logbook_id /\ l.pilot_id = pilot_id)}]

(* ----------------------- outcomes of a handler ------------------------ *)
\* return value, serialised with the route's status_code
Returned(status, body, d) ==
    [outcome |-> "returned", status |-> status, detail |-> "", body |-> body,
     db |-> d]
\* raise HTTPException(status_code, detail)
HTTPException(status, detail, d) ==
    [outcome |-> "raised", status |-> status, detail |-> detail, body |-> {},
     db |-> d]
\* any other exception leaves the handler: the server answers 500
Unhandled(d) ==
    [outcome |-> "crashed", status |-> 500, detail |-> "Internal Server Error",
     body |-> {}, db |-> d]
\* the handler goes on to its next storage step
Continue(d) ==
    [outcome |-> "continue", status |-> 0, detail |-> "", body |-> {}, db |-> d]

(* ------------------------------ handlers ------------------------------ *)
\* g_pilot answering "not found" with its own status
g_pilot_not_found(pilot_id, d) ==
    LET db_pilot == get_pilot_by_id(d, pilot_id) IN
    IF db_pilot = {} THEN HTTPException(404, "Pilot not found", d)
    ELSE Returned(200, db_pilot, d)

g_pilot(pilot_id, d) ==
    LET db_pilot == get_pilot_by_id(d, pilot_id) IN
    IF db_pilot = {} THEN HTTPException(422, "Pilot ID required.", d)
    ELSE Returned(200, db_pilot, d)

\* p_pilot without the test of the lookup's result
p_pilot_check_skipped(pilot, d) == Continue(d)

\* p_pilot up to its raise: the name lookup and the test of its result
p_pilot_check(pilot, d) ==
    LET db_pilot == get_pilot_by_name(d, pilot.name) IN
    IF db_pilot # {} THEN HTTPException(400, "Name already registered", d)
    ELSE Continue(d)

\* p_pilot's last line: the insert, on the storage as it is by then
p_pilot_create(pilot, d) ==
    Returned(201, {new_pilot(d, pilot)}, create_pilot(d, pilot))

g_logbook(pilot_id, d) ==
    IF pilot_id = None THEN HTTPException(400, "Pilot ID needed", d)
    ELSE Returned(200, get_logbook_by_pilot(d, pilot_id), d)

p_logbook(logbook, d) ==
    Returned(201, {new_logbook(d, logbook)}, create_logbook(d, logbook))

\* del_logbook passing its two ids in the wrong order
del_logbook_swapped(pilot_id, logbook_id, d) ==
    Returned(202, {}, delete_logbook_map(d, logbook_id, pilot_id))

del_logbook(pilot_id, logbook_id, d) ==
    Returned(202, {}, delete_logbook_map(d, pilot_id, logbook_id))

\* ac_tail is Optional[str]: {} for None, {s} for the string s
search_tn(ac_tail, d) ==
    IF ac_tail = {} THEN HTTPException(400, "Missing Tail Number", d)
    ELSE LET s == CHOOSE t \in ac_tail : TRUE IN
         Returned(200, get_aircraft_by_tail(d, upper(s)), d)

p_aircraft(pilot_id, aircraft, d) ==
    Returned(201, {new_aircraft(d, aircraft, pilot_id)},
             create_aircraft(d, aircraft, pilot_id))

\* p_flight without the test of the aircraft lookup
p_flight_pilot_only(pilot_id, aircraft_id, d) ==
    LET db_pilot == get_pilot_by_id(d, pilot_id) IN
    IF db_pilot = {} THEN HTTPException(422, "Pilot ID required.", d)
    ELSE Returned(201, {new_flight(d, pilot_id, aircraft_id)},
                  create_flight(d, pilot_id, aircraft_id))

\* p_flight testing the aircraft lookup before the pilot lookup
p_flight_aircraft_first(pilot_id, aircraft_id, d) ==
    LET db_pilot == get_pilot_by_id(d, pilot_id)
        db_ac == get_aircraft_by_id(d, aircraft_id) IN
    IF db_ac = {} THEN HTTPException(422, "Aircraft ID required.", d)
    ELSE IF db_pilot = {} THEN HTTPException(422, "Pilot ID required.", d)
    ELSE Returned(201, {new_flight(d, pilot_id, aircraft_id)},
                  create_flight(d, pilot_id, aircraft_id))

\* Both lookups and the insert are one step: no request deletes a Pilot or
\* an Aircraft row, so a row found by a lookup is still there at the insert.
p_flight(pilot_id, aircraft_id, d) ==
    LET db_pilot == get_pilot_by_id(d, pilot_id)
        db_ac == get_aircraft_by_id(d, aircraft_id) IN
    IF db_pilot = {} THEN HTTPException(422, "Pilot ID required.", d)
    ELSE IF db_ac = {} THEN HTTPException(422, "Aircraft ID required.", d)
    ELSE Returned(201, {new_flight(d, pilot_id, aircraft_id)},
                  create_flight(d, pilot_id, aircraft_id))

\* upload_logbook_file storing a logbook row for the parsed file
upload_logbook_file_persisting(file, pilot_id, d) ==
    IF pilot_id = None THEN HTTPException(422, "Pilot ID required.", d)
    ELSE IF ~file.wellformed THEN Unhandled(d)
    ELSE IF "Date" \notin file.columns THEN Unhandled(d)
    ELSE IF "Aircraft" \notin file.columns THEN Unhandled(d)
    ELSE Returned(201, {}, create_logbook(d, [pilot_id |-> pilot_id]))

upload_logbook_file(file, pilot_id, d) ==
    IF pilot_id = None THEN HTTPException(422, "Pilot ID required.", d)
    ELSE IF ~file.wellformed THEN Unhandled(d)              \* read_csv: parse error
    ELSE IF "Date" \notin file.columns THEN Unhandled(d)     \* parse_dates=['Date']
    ELSE IF "Aircraft" \notin file.columns THEN Unhandled(d) \* file_pd["Aircraft"]
    ELSE Returned(201, {}, d)

(* --------------------------- session scope ---------------------------- *)
\* db = SessionLocal(): a session of its own for the request
SessionLocal(open, n) == open \cup {n}

\* get_db without the finally: db.close() only after a normal return
db_close_on_return(open, s, outcome) ==
    IF outcome = "returned" THEN open \ {s} ELSE open

\* get_db's try/finally: db.close() whatever way the handler was left
db_close(open, s, outcome) == open \ {s}

(* ------------------------------ requests ------------------------------ *)
NoFile == [wellformed |-> FALSE, columns |-> {}]
Blank ==
    [pc |-> "idle", kind |-> "", session |-> 0,
     pilot_id |-> None, aircraft_id |-> None, logbook_id |-> None,
     name |-> "", ac_tail |-> {}, tail_numb |-> <<>>, file |-> NoFile,
     outcome |-> "", status |-> 0, detail |-> "", body |-> {}]

Call(kind) == [Blank EXCEPT !.kind = kind]

PilotRequests ==
    {[Call("p_pilot") EXCEPT !.name = n] : n \in Names}
    \cup {[Call("g_pilot") EXCEPT !.pilot_id = p] : p \in 1..MaxId}

FlightRequests ==
    {[Call("p_pilot") EXCEPT !.name = n] : n \in Names}
    \cup {[Call("p_aircraft") EXCEPT !.pilot_id = p, !.tail_numb = t] :
             p \in 1..MaxId, t \in {<<"N">>}}
    \cup {[Call("p_flight") EXCEPT !.pilot_id = p, !.aircraft_id = a] :
             p \in IdArgs, a \in IdArgs}

\* the four creating requests
CreateRequests ==
    FlightRequests
    \cup {[Call("p_logbook") EXCEPT !.pilot_id = p] : p \in 1..MaxId}

LogbookRequests ==
    {[Call("p_logbook") EXCEPT !.pilot_id = p] : p \in 1..MaxId}
    \cup {[Call("g_logbook") EXCEPT !.pilot_id = p] : p \in IdArgs}
    \cup {[Call("del_logbook") EXCEPT !.pilot_id = p, !.logbook_id = l] :
             p \in 1..MaxId, l \in 1..MaxId}

AircraftRequests ==
    {[Call("p_aircraft") EXCEPT !.pilot_id = p, !.tail_numb = t] :
        p \in {1}, t \in Tails}
    \cup {[Call("search_tn") EXCEPT !.ac_tail = o] :
             o \in {{}} \cup {{t} : t \in Tails}}

UploadRequests ==
    {[Call("p_pilot") EXCEPT !.name = n] : n \in Names}
    \cup {[Call("upload_logbook_file") EXCEPT !.pilot_id = p, !.file = f] :
             p \in IdArgs, f \in Files}

Finished(c) == req[c].pc \in {"idle", "done"}
Serving(c, kind) == req[c].pc = "handler" /\ req[c].kind = kind

\* The request arrives; Depends(get_db) opens its session and yields it.
Receive(c, R) ==
    /\ Finished(c)
    /\ nextSession <= MaxRequests
    /\ \E r \in R :
         req' = [req EXCEPT ![c] =
                    [r EXCEPT !.pc = "handler", !.session = nextSession]]
    /\ sessions' = SessionLocal(sessions, nextSession)
    /\ nextSession' = nextSession + 1
    /\ UNCHANGED db

\* The handler (or one storage step of it) has run with result res.
Respond(c, res) ==
    /\ db' = res.db
    /\ req' = [req EXCEPT ![c] =
                 [@ EXCEPT !.pc = IF res.outcome = "continue" THEN "insert"
                                 ELSE "responded",
                           !.outcome = res.outcome, !.status = res.status,
                           !.detail = res.detail, !.body = res.body]]
    /\ UNCHANGED <<sessions, nextSession>>

\* get_db resumes after the yield: the finally clause closes the session.
Complete(c) ==
    /\ req[c].pc = "responded"
    /\ sessions' = db_close(sessions, req[c].session, req[c].outcome)
    /\ req' = [req EXCEPT ![c] =
                 [Blank EXCEPT !.pc = "done", !.kind = req[c].kind,
                               !.session = req[c].session,
                               !.outcome = req[c].outcome]]
    /\ UNCHANGED <<db, nextSession>>

Route_g_pilot(c) ==
    Serving(c, "g_pilot") /\ Respond(c, g_pilot(req[c].pilot_id, db))

Route_p_pilot_check(c) ==
    Serving(c, "p_pilot") /\ Respond(c, p_pilot_check(req[c], db))

Route_p_pilot_create(c) ==
    /\ req[c].pc = "insert" /\ req[c].kind = "p_pilot"
    /\ Respond(c, p_pilot_create(req[c], db))

Route_g_logbook(c) ==
    Serving(c, "g_logbook") /\ Respond(c, g_logbook(req[c].pilot_id, db))

Route_p_logbook(c) ==
    Serving(c, "p_logbook") /\ Respond(c, p_logbook(req[c], db))

Route_del_logbook(c) ==
    /\ Serving(c, "del_logbook")
    /\ Respond(c, del_logbook(req[c].pilot_id, req[c].logbook_id, db))

Route_search_tn(c) ==
    Serving(c, "search_tn") /\ Respond(c, search_tn(req[c].ac_tail, db))

Route_p_aircraft(c) ==
    /\ Serving(c, "p_aircraft")
    /\ Respond(c, p_aircraft(req[c].pilot_id, req[c], db))

Route_p_flight(c) ==
    /\ Serving(c, "p_flight")
    /\ Respond(c, p_flight(req[c].pilot_id, req[c].aircraft_id, db))

Route_upload_logbook_file(c) ==
    /\ Serving(c, "upload_logbook_file")
    /\ Respond(c, upload_logbook_file(req[c].file, req[c].pilot_id, db))

Init ==
    /\ db = EmptyDb
    /\ req = [c \in Clients |-> Blank]
    /\ sessions = {}
    /\ nextSession = 1

NextPilot ==
    \E c \in Clients :
        \/ Receive(c, PilotRequests)
        \/ Route_g_pilot(c)
        \/ Route_p_pilot_check(c)
        \/ Route_p_pilot_create(c)
        \/ Complete(c)

SpecPilot == Init /\ [][NextPilot]_vars

NextFlight ==
    \E c \in Clients :
        \/ Receive(c, FlightRequests)
        \/ Route_p_pilot_check(c)
        \/ Route_p_pilot_create(c)
        \/ Route_p_aircraft(c)
        \/ Route_p_flight(c)
        \/ Complete(c)

SpecFlight == Init /\ [][NextFlight]_vars

NextCreate ==
    \E c \in Clients :
        \/ Receive(c, CreateRequests)
        \/ Route_p_pilot_check(c)
        \/ Route_p_pilot_create(c)
        \/ Route_p_aircraft(c)
        \/ Route_p_logbook(c)
        \/ Route_p_flight(c)
        \/ Complete(c)

SpecCreate == Init /\ [][NextCreate]_vars

NextLogbook ==
    \E c \in Clients :
        \/ Receive(c, LogbookRequests)
        \/ Route_p_logbook(c)
        \/ Route_g_logbook(c)
        \/ Route_del_logbook(c)
        \/ Complete(c)

SpecLogbook == Init /\ [][NextLogbook]_vars

NextAircraft ==
    \E c \in Clients :
        \/ Receive(c, AircraftRequests)
        \/ Route_p_aircraft(c)
        \/ Route_search_tn(c)
        \/ Complete(c)

SpecAircraft == Init /\ [][NextAircraft]_vars

NextUpload ==
    \E c \in Clients :
        \/ Receive(c, UploadRequests)
        \/ Route_p_pilot_check(c)
        \/ Route_p_pilot_create(c)
        \/ Route_upload_logbook_file(c)
        \/ Complete(c)

SpecUpload == Init /\ [][NextUpload]_vars

(* ------------------------------ properties ---------------------------- *)
\* the step of this behaviour is a step of client c's request
StepOf(c) == req'[c] # req[c]
InFlight(c) == req[c].pc \in {"handler", "insert", "responded"}
Answered(c, kind) == req[c].pc = "responded" /\ req[c].kind = kind
PilotExists(d, pilot_id) == \E p \in d.pilots : p.id = pilot_id
AircraftExists(d, ac_id) == \E a \in d.aircraft : a.id = ac_id

\* C1: a create-pilot request whose name belongs to an existing Pilot row
\* fails with 400 "Name already registered", and no step of it changes the
\* stored rows.
C1_DuplicateNameRejected ==
    [][\A c \in Clients :
        /\ (Serving(c, "p_pilot") /\ StepOf(c)
              /\ \E p \in db.pilots : p.name = req[c].name)
           => /\ req'[c].pc = "responded"
              /\ req'[c].outcome = "raised"
              /\ req'[c].status = 400
              /\ req'[c].detail = "Name already registered"
              /\ db' = db
        /\ (Answered(c, "p_pilot") /\ req[c].status = 400 /\ StepOf(c))
           => db' = db]_vars

\* a duplicate create-pilot request has been answered 400 while the row that
\* holds the name is stored
C1_Witness ==
    \E c \in Clients :
        /\ Answered(c, "p_pilot")
        /\ req[c].status = 400
        /\ req[c].detail = "Name already registered"
        /\ \E p \in db.pilots : p.name = req[c].name

\* C2: no two Pilot rows have the same name, whatever the interleaving of the
\* lookups and inserts of concurrent create-pilot requests.
C2_PilotNamesUnique ==
    \A p1, p2 \in db.pilots : p1.name = p2.name => p1 = p2

\* C3: a create-flight request inserts a Flight row if and only if a Pilot row
\* with pilot_id and an Aircraft row with aircraft_id exist; otherwise it fails
\* with 422 and the Flight rows are unchanged.
C3_FlightIffBothExist ==
    [][\A c \in Clients :
        (Serving(c, "p_flight") /\ StepOf(c)) =>
          LET both == /\ PilotExists(db, req[c].pilot_id)
                      /\ AircraftExists(db, req[c].aircraft_id)
              added == db'.flights \ db.flights
          IN  /\ db.flights \subseteq db'.flights
              /\ both <=> added # {}
              /\ both => /\ Cardinality(added) = 1
                         /\ \A f \in added :
                              /\ f.pilot_id = req[c].pilot_id
                              /\ f.aircraft_id = req[c].aircraft_id
                         /\ req'[c].status = 201
              /\ ~both => /\ req'[c].outcome = "raised"
                          /\ req'[c].status = 422
                          /\ db'.flights = db.flights]_vars

\* a create-flight request has been answered 201 and its row is stored
C3_Witness ==
    \E c \in Clients :
        /\ Answered(c, "p_flight")
        /\ req[c].status = 201
        /\ \E f \in db.flights :
             /\ f.pilot_id = req[c].pilot_id
             /\ f.aircraft_id = req[c].aircraft_id

\* C4: a failing create-flight request names the missing reference, the pilot
\* first: "Pilot ID required." whenever the pilot is missing, "Aircraft ID
\* required." exactly when the pilot exists and the aircraft is missing.
C4_PilotCheckedFirst ==
    [][\A c \in Clients :
        (Serving(c, "p_flight") /\ StepOf(c)) =>
          /\ ~PilotExists(db, req[c].pilot_id)
             => /\ req'[c].outcome = "raised"
                /\ req'[c].detail = "Pilot ID required."
          /\ req'[c].detail = "Aircraft ID required."
             <=> /\ PilotExists(db, req[c].pilot_id)
                 /\ ~AircraftExists(db, req[c].aircraft_id)]_vars

\* one create-flight request was refused for its aircraft (its pilot exists)
\* and another for its pilot although its aircraft is missing too
C4_Witness ==
    \E c1, c2 \in Clients :
        /\ Answered(c1, "p_flight")
        /\ req[c1].detail = "Aircraft ID required."
        /\ PilotExists(db, req[c1].pilot_id)
        /\ Answered(c2, "p_flight")
        /\ req[c2].detail = "Pilot ID required."
        /\ ~AircraftExists(db, req[c2].aircraft_id)

\* C5: a delete-logbook request (p, l) removes at most the Logbook row with
\* id l owned by pilot p; every other row stays, and storage is unchanged
\* when no row matches both.
C5_DeleteScopedToPilot ==
    [][\A c \in Clients :
        (Serving(c, "del_logbook") /\ StepOf(c)) =>
          LET removed == db.logbooks \ db'.logbooks IN
          /\ db'.logbooks \subseteq db.logbooks
          /\ \A l \in removed :
               l.id = req[c].logbook_id /\ l.pilot_id = req[c].pilot_id
          /\ db'.pilots = db.pilots
          /\ db'.aircraft = db.aircraft
          /\ db'.flights = db.flights
          /\ (~\E l \in db.logbooks :
                 l.id = req[c].logbook_id /\ l.pilot_id = req[c].pilot_id)
             => db' = db]_vars

\* a delete-logbook request was served and the row with its logbook id,
\* owned by another pilot, is still stored
C5_Witness ==
    \E c \in Clients :
        /\ Answered(c, "del_logbook")
        /\ \E l \in db.logbooks :
             l.id = req[c].logbook_id /\ l.pilot_id # req[c].pilot_id

\* C6: no Aircraft, Flight or Logbook row has an owning pilot id for which no
\* Pilot row exists.
C6_OwnerExists ==
    \A r \in db.aircraft \cup db.flights \cup db.logbooks :
        PilotExists(db, r.pilot_id)

\* C7: a tail-number search returns the same result for arguments that differ
\* only in letter case, and finds an aircraft created with the searched tail
\* number in any letter case.
C7_SearchIgnoresCase ==
    [][\A c \in Clients :
        (Serving(c, "search_tn") /\ StepOf(c) /\ req[c].ac_tail # {}) =>
          LET s == CHOOSE t \in req[c].ac_tail : TRUE IN
          /\ \A t \in Tails :
               upper(t) = upper(s) => search_tn({t}, db).body = req'[c].body
          /\ (\E a \in db.aircraft : upper(a.tail_numb) = upper(s))
             => \E a \in req'[c].body : upper(a.tail_numb) = upper(s)]_vars

\* C8: every request in flight holds an open session of its own, and a
\* session is open only while its request is in flight, whichever way the
\* handler was left.
C8_SessionScopedToRequest ==
    /\ \A c \in Clients : InFlight(c) => req[c].session \in sessions
    /\ \A s \in sessions :
         \E c \in Clients : InFlight(c) /\ req[c].session = s
    /\ \A c1, c2 \in Clients :
         (c1 # c2 /\ InFlight(c1) /\ InFlight(c2))
             => req[c1].session # req[c2].session
    /\ \A c \in Clients : req[c].pc = "done" => req[c].session \notin sessions

\* one request has finished after an unhandled exception and another after
\* an HTTP error
C8_Witness ==
    \E c1, c2 \in Clients :
        /\ req[c1].pc = "done" /\ req[c1].outcome = "crashed"
        /\ req[c2].pc = "done" /\ req[c2].outcome = "raised"

\* C9: a get-pilot request for an id no Pilot row has fails with 422 "Pilot
\* ID required."; for the id of a Pilot row it returns that row; storage is
\* unchanged either way.
C9_GetPilot ==
    [][\A c \in Clients :
        (Serving(c, "g_pilot") /\ StepOf(c)) =>
          /\ db' = db
          /\ IF PilotExists(db, req[c].pilot_id)
             THEN /\ req'[c].outcome = "returned"
                  /\ req'[c].status = 200
                  /\ req'[c].body = {p \in db.pilots : p.id = req[c].pilot_id}
             ELSE /\ req'[c].outcome = "raised"
                  /\ req'[c].status = 422
                  /\ req'[c].detail = "Pilot ID required."]_vars

\* one get-pilot request was answered with the row and another with the error
C9_Witness ==
    \E c1, c2 \in Clients :
        /\ Answered(c1, "g_pilot") /\ req[c1].status = 200
        /\ req[c1].body # {}
        /\ Answered(c2, "g_pilot") /\ req[c2].status = 422

\* C10: an upload request leaves every stored row unchanged on every outcome:
\* success, the 422 for an absent pilot_id, and an unhandled parse error.
C10_UploadWritesNothing ==
    [][\A c \in Clients :
        (Serving(c, "upload_logbook_file") /\ StepOf(c)) =>
          LET parses == /\ req[c].file.wellformed
                        /\ {"Date", "Aircraft"} \subseteq req[c].file.columns
          IN  /\ db' = db
              /\ req'[c].outcome =
                   IF req[c].pilot_id = None THEN "raised"
                   ELSE IF parses THEN "returned" ELSE "crashed"
              /\ req[c].pilot_id = None
                   => /\ req'[c].status = 422
                      /\ req'[c].detail = "Pilot ID required."]_vars

\* rows are stored, one upload was answered 201 and another ended in an
\* unhandled parse error
C10_Witness ==
    \E c1, c2 \in Clients :
        /\ db.pilots # {}
        /\ Answered(c1, "upload_logbook_file") /\ req[c1].outcome = "returned"
        /\ Answered(c2, "upload_logbook_file") /\ req[c2].outcome = "crashed"

====
